---- MODULE Spec2Model ----
(***************************************************************************)
(* A model of uploader.js: the `upload` and `test` commands of the S3      *)
(* batch uploader.                                                         *)
(*                                                                         *)
(* Node runs JavaScript to completion between suspension points, so the    *)
(* engine (uploadDirectory) and the task callbacks (the continuations of   *)
(* processFile after each await) never interleave inside a synchronous     *)
(* stretch: a task callback can run only while the engine is suspended at  *)
(* one of its two `await Promise.all(queue)`.  Each task callback is one   *)
(* atomic action; the engine's synchronous code is cut into steps, none of *)
(* which a callback can interrupt.                                         *)
(***************************************************************************)
EXTENDS Integers, Sequences, FiniteSets, TLC

\* ------------------------------------------------------------------ bounds
MaxEntries == 3      \* directory entries listed by readdirSync
MaxClock   == 1      \* wall-clock ticks observed during a run

\* uploader.js:8 sets 50; the model keeps the constant's role (the batch size)
\* at a value small enough for the directory sizes explored.
CONCURRENT_UPLOADS == 2

\* ------------------------------------------------------------- input sets
AllNames == <<"a.txt", "b.txt", "c.txt", "d.txt", "e.txt", "f.txt">>

\* process.argv[2]: the two commands and anything else.
Commands == {"upload", "test", "help"}

RequiredEnv == {"AWS_REGION", "AWS_ACCESS_KEY_ID", "AWS_SECRET_ACCESS_KEY"}

\* What statSync(fullPath) gives for one entry: a regular file, a directory,
\* or an error code (ENOENT: a dangling symlink or a file deleted meanwhile).
StatKinds == {"file", "dir", "ENOENT", "EACCES"}

\* What readdirSync(localPath) gives: the listing or an error code.
ReaddirResults == {"ok", "ENOENT", "ENOTDIR", "EACCES"}

NoCode == "undefined"

\* Errors headObject can reject with, other than NotFound.  An SDK error
\* carries a code; a plain Error has only a message.
HeadErrors ==
    { [code |-> "Forbidden", message |-> "Forbidden"],
      [code |-> NoCode,      message |-> "socket hang up"] }

NotFoundError == [code |-> "NotFound", message |-> "NotFound"]

\* Errors s3.upload can reject with, and errors readFileSync can throw.
UploadErrors == { [code |-> "AccessDenied", message |-> "Access Denied"] }
ReadErrors   == { [code |-> "EACCES", message |-> "EACCES: permission denied, open"] }

VARIABLES
    argc,              \* process.argv.slice(2).length of `upload ...`
    env,               \* the names of RequiredEnv set in process.env
    platform,          \* "posix" or "win32": decides path.join
    fs,                \* the local directory: [readdir, entries]
    clock,             \* wall clock
    pc,                \* position of the engine
    exitCode,          \* process exit code, NoExit while running
    timestamp,         \* uploader.js:118
    duplicatedFiles,   \* uploader.js:119
    notUploadedFiles,  \* uploader.js:120
    uploadedCount,     \* uploader.js:121
    filesToProcess,    \* uploader.js:125
    processedCount,    \* uploader.js:133
    idx,               \* number of loop iterations of uploader.js:183 done
    queue,             \* uploader.js:182, the task indices of the promises
    tasks,             \* the processFile invocations, in start order
    thrown,            \* the error travelling to the catch of uploader.js:226
    console,           \* lines printed
    reports,           \* files written by writeFileSync
    command,           \* process.argv[2]
    probe,             \* the headBucket request of the test command
    readdirCalls       \* calls of fs.readdirSync

vars == << argc, env, platform, fs, clock, pc, exitCode, timestamp,
           duplicatedFiles, notUploadedFiles, uploadedCount, filesToProcess,
           processedCount, idx, queue, tasks, thrown, console, reports,
           command, probe, readdirCalls >>

NoExit  == -1
NoError == [code |-> NoCode, message |-> ""]
NoKey   == << >>

s3Path == <<"photos">>

\* ------------------------------------------------------------ pure helpers
RECURSIVE SelectSeqIdx(_, _, _)
\* Array.prototype.filter, keeping the entries whose stat says regular file.
SelectSeqIdx(entries, i, acc) ==
    IF i > Len(entries) THEN acc
    ELSE SelectSeqIdx(entries, i + 1,
            IF entries[i].stat = "file" THEN Append(acc, entries[i].name) ELSE acc)

\* A slip: a statSync that throws is swallowed and the entry filtered out.
FirstStatError_Swallowed(entries) == 0

\* The first entry whose statSync throws, 0 if none does.
FirstStatError(entries) ==
    LET bad == { i \in 1..Len(entries) : entries[i].stat \notin {"file", "dir"} }
    IN  IF bad = {} THEN 0 ELSE CHOOSE i \in bad : \A j \in bad : i <= j

\* A slip: the replace left out, the key kept as path.join gives it.
ReplaceBackslashes_Missing(p) == p

\* String.prototype.replace(/\\/g, "/") on a string kept as a sequence of
\* path atoms, the separators being atoms of their own.
ReplaceBackslashes(p) == [ k \in 1..Len(p) |-> IF p[k] = "\\" THEN "/" ELSE p[k] ]

\* path.join(a, b): joined with the platform's separator; win32 also turns
\* every "/" of its arguments into "\".
PathJoin(plat, a, b) ==
    IF plat = "posix"
    THEN a \o <<"/">> \o b
    ELSE [ k \in 1..(Len(a) + 1 + Len(b)) |->
             LET c == (a \o <<"/">> \o b)[k] IN IF c = "/" THEN "\\" ELSE c ]

\* uploader.js:137
S3Key(plat, fileName) == ReplaceBackslashes(PathJoin(plat, s3Path, <<fileName>>))

\* new Date().toISOString(): the clock reading as date, "T", time, ".", ms.
ToISOString(t) == <<"2026-11-06", "T", "06", ":", "50", ":", ToString(t), ".", "000Z">>

\* .replace(/[:.]/g, "-")
ReplaceColonDot(s) == [ k \in 1..Len(s) |-> IF s[k] \in {":", "."} THEN "-" ELSE s[k] ]

\* JSON.stringify(value, null, 2): the text of a list, element by element.
JSONStringify(list) == [ json |-> list ]

\* `${err.code || err.message}`
CodeOrMessage(err) == IF err.code # NoCode THEN err.code ELSE err.message

\* A slip: the line printed with the count as it was before the increment.
ProgressLine_BeforeIncrement(n, total) == <<"Progress", n - 1, total>>

\* uploader.js:178
ProgressLine(n, total) == <<"Progress", n, total>>

\* A slip: Promise.race in place of Promise.all, settling with the first
\* promise that settles.
PromiseAll_Race(q, ts) ==
    IF \E k \in 1..Len(q) : ts[q[k]].state = "rejected" THEN "rejected"
    ELSE IF Len(q) = 0 \/ \E k \in 1..Len(q) : ts[q[k]].state = "fulfilled"
         THEN "fulfilled"
    ELSE "pending"

\* Promise.all over the promises of the queue.
PromiseAll(q, ts) ==
    IF \E k \in 1..Len(q) : ts[q[k]].state = "rejected" THEN "rejected"
    ELSE IF \A k \in 1..Len(q) : ts[q[k]].state = "fulfilled" THEN "fulfilled"
    ELSE "pending"

\* A slip: an off-by-one in the comparison.
BatchFull_OffByOne(q) == Len(q) > CONCURRENT_UPLOADS

\* uploader.js:187
BatchFull(q) == Len(q) >= CONCURRENT_UPLOADS

\* The engine is not running synchronous code (it is suspended at an await,
\* or uploadDirectory has returned): only then can a callback run.
Suspended == pc \in {"awaitBatch", "awaitFinal", "returned"}

\* ------------------------------------------------------------------- Init
DirListings ==
    UNION { { [ k \in 1..n |-> [name |-> AllNames[k], stat |-> st[k]] ] :
                st \in [1..n -> StatKinds] } : n \in 0..MaxEntries }

Init ==
    /\ command \in Commands
    /\ argc \in {2, 3, 4}
    /\ env \in SUBSET RequiredEnv
    /\ platform \in {"posix", "win32"}
    /\ fs \in { [readdir |-> "ok", entries |-> e] : e \in DirListings }
           \cup { [readdir |-> r, entries |-> << >>] : r \in ReaddirResults \ {"ok"} }
    /\ clock = 0
    /\ pc = "main"
    /\ exitCode = NoExit
    /\ timestamp = << >>
    /\ duplicatedFiles = << >>
    /\ notUploadedFiles = << >>
    /\ uploadedCount = 0
    /\ filesToProcess = << >>
    /\ processedCount = 0
    /\ idx = 0
    /\ queue = << >>
    /\ tasks = << >>
    /\ thrown = NoError
    /\ console = << >>
    /\ reports = {}
    /\ probe = [calls |-> 0, state |-> "none"]
    /\ readdirCalls = 0

\* ------------------------------------------------------------ the engine
\* uploader.js:254-273: the number of arguments the command needs, its own
\* name counted; 0 for what is no command.
ArgsNeeded(cmd) == IF cmd = "test" THEN 2 ELSE IF cmd = "upload" THEN 4 ELSE 0

\* uploader.js:254-273: the dispatch of the command.
Main ==
    /\ pc = "main"
    /\ IF command \notin {"test", "upload"} \/ argc # ArgsNeeded(command)
       THEN /\ console' = Append(console, <<"Usage">>)
            /\ exitCode' = 1
            /\ pc' = "exited"
       ELSE /\ pc' = command
            /\ UNCHANGED << console, exitCode >>
    /\ UNCHANGED << argc, env, platform, fs, clock, timestamp, duplicatedFiles,
                    notUploadedFiles, uploadedCount, filesToProcess,
                    processedCount, idx, queue, tasks, thrown, reports >>
    /\ UNCHANGED << command, probe, readdirCalls >>

\* A slip: && in place of ||, so one value that is set passes the test.
CredentialsPresent_AnySet == env # {}

\* uploader.js:10-28
CredentialsPresent == env = RequiredEnv

\* uploader.js:106-121: getAWSConfig, then the run's timestamp and buckets.
StartUpload ==
    /\ pc = "upload"
    /\ IF ~CredentialsPresent
       THEN /\ console' = console \o << <<"Starting">>, <<"MissingCredentials">> >>
            /\ exitCode' = 1
            /\ pc' = "exited"
            /\ UNCHANGED << timestamp, duplicatedFiles, notUploadedFiles, uploadedCount >>
       ELSE /\ console' = Append(console, <<"Starting">>)
            /\ timestamp' = ReplaceColonDot(ToISOString(clock))
            /\ duplicatedFiles' = << >>
            /\ notUploadedFiles' = << >>
            /\ uploadedCount' = 0
            /\ pc' = "enumerate"
            /\ UNCHANGED exitCode
    /\ UNCHANGED << argc, env, platform, fs, clock, filesToProcess,
                    processedCount, idx, queue, tasks, thrown, reports >>
    /\ UNCHANGED << command, probe, readdirCalls >>

\* uploader.js:124-133: readdirSync and the statSync filter; either may throw.
Enumerate ==
    /\ pc = "enumerate"
    /\ IF fs.readdir # "ok"
       THEN /\ thrown' = [code |-> fs.readdir, message |-> fs.readdir]
            /\ pc' = "catch"
            /\ UNCHANGED << filesToProcess, processedCount, console >>
       ELSE IF FirstStatError(fs.entries) # 0
       THEN /\ thrown' = [code    |-> fs.entries[FirstStatError(fs.entries)].stat,
                          message |-> fs.entries[FirstStatError(fs.entries)].stat]
            /\ pc' = "catch"
            /\ UNCHANGED << filesToProcess, processedCount, console >>
       ELSE /\ filesToProcess' = SelectSeqIdx(fs.entries, 1, << >>)
            /\ console' = Append(console, <<"Found", Len(filesToProcess')>>)
            /\ processedCount' = 0
            /\ pc' = "loop"
            /\ UNCHANGED thrown
    /\ UNCHANGED << argc, env, platform, fs, clock, exitCode, timestamp,
                    duplicatedFiles, notUploadedFiles, uploadedCount, idx,
                    queue, tasks, reports >>
    /\ UNCHANGED << command, probe >>
    /\ readdirCalls' = readdirCalls + 1

\* uploader.js:135-141: processFile up to its first await: the keys are
\* computed and the headObject request is issued.
NewTask(fileName) ==
    [ fileName   |-> fileName,
      state      |-> "head",
      headKey    |-> S3Key(platform, fileName),
      uploadKey  |-> NoKey,
      heads      |-> 1,
      reads      |-> 0,
      uploads    |-> 0,
      headResult |-> "pending",
      uploadResult |-> "none",
      error      |-> NoError ]

\* uploader.js:183-190: one iteration of the for loop.
LoopStep ==
    /\ pc = "loop"
    /\ idx < Len(filesToProcess)
    /\ tasks' = Append(tasks, NewTask(filesToProcess[idx + 1]))
    /\ queue' = Append(queue, Len(tasks) + 1)
    /\ idx' = idx + 1
    /\ pc' = IF BatchFull(queue') THEN "awaitBatch" ELSE "loop"
    /\ UNCHANGED << argc, env, platform, fs, clock, exitCode, timestamp,
                    duplicatedFiles, notUploadedFiles, uploadedCount,
                    filesToProcess, processedCount, thrown, console, reports >>
    /\ UNCHANGED << command, probe, readdirCalls >>

\* uploader.js:191-192: the loop is over, the engine awaits what is queued.
LoopExit ==
    /\ pc = "loop"
    /\ idx = Len(filesToProcess)
    /\ pc' = "awaitFinal"
    /\ UNCHANGED << argc, env, platform, fs, clock, exitCode, timestamp,
                    duplicatedFiles, notUploadedFiles, uploadedCount,
                    filesToProcess, processedCount, idx, queue, tasks, thrown,
                    console, reports >>
    /\ UNCHANGED << command, probe, readdirCalls >>

\* The first rejection among the promises of the queue.
FirstRejection(q, ts) ==
    ts[q[CHOOSE k \in 1..Len(q) : ts[q[k]].state = "rejected"]].error

\* uploader.js:188-189: Promise.all settles and the engine resumes.
ResumeBatch ==
    /\ pc = "awaitBatch"
    /\ PromiseAll(queue, tasks) # "pending"
    /\ IF PromiseAll(queue, tasks) = "rejected"
       THEN /\ thrown' = FirstRejection(queue, tasks)
            /\ pc' = "catch"
            /\ UNCHANGED queue
       ELSE /\ queue' = << >>
            /\ pc' = "loop"
            /\ UNCHANGED thrown
    /\ UNCHANGED << argc, env, platform, fs, clock, exitCode, timestamp,
                    duplicatedFiles, notUploadedFiles, uploadedCount,
                    filesToProcess, processedCount, idx, tasks, console, reports >>
    /\ UNCHANGED << command, probe, readdirCalls >>

\* uploader.js:192
ResumeFinal ==
    /\ pc = "awaitFinal"
    /\ PromiseAll(queue, tasks) # "pending"
    /\ IF PromiseAll(queue, tasks) = "rejected"
       THEN /\ thrown' = FirstRejection(queue, tasks)
            /\ pc' = "catch"
       ELSE /\ pc' = "summary"
            /\ UNCHANGED thrown
    /\ UNCHANGED << argc, env, platform, fs, clock, exitCode, timestamp,
                    duplicatedFiles, notUploadedFiles, uploadedCount,
                    filesToProcess, processedCount, idx, queue, tasks, console,
                    reports >>
    /\ UNCHANGED << command, probe, readdirCalls >>

\* uploader.js:194-200
SummaryLine ==
    <<"Summary", Len(filesToProcess), uploadedCount,
      Len(duplicatedFiles), Len(notUploadedFiles)>>

Summary ==
    /\ pc = "summary"
    /\ console' = Append(console, SummaryLine)
    /\ pc' = "reportDuplicates"
    /\ UNCHANGED << argc, env, platform, fs, clock, exitCode, timestamp,
                    duplicatedFiles, notUploadedFiles, uploadedCount,
                    filesToProcess, processedCount, idx, queue, tasks, thrown,
                    reports >>
    /\ UNCHANGED << command, probe, readdirCalls >>

\* The name of a report file: the prefix, the timestamp, ".json".
ReportName(prefix, ts) == <<prefix>> \o ts \o <<".json">>

\* A slip: the emptiness test dropped, so empty reports are written too.
ShouldWrite_Always(bucket) == TRUE

\* uploader.js:203,214: a report is written for a bucket that is not empty.
ShouldWrite(bucket) == Len(bucket) > 0

\* uploader.js:203-212
WriteDuplicateReport ==
    /\ pc = "reportDuplicates"
    /\ IF ShouldWrite(duplicatedFiles)
       THEN /\ reports' = reports \cup
                    { [ name    |-> ReportName("duplicated_", timestamp),
                        content |-> JSONStringify(duplicatedFiles) ] }
            /\ console' = Append(console, <<"DuplicateReportSaved">>)
       ELSE UNCHANGED << reports, console >>
    /\ pc' = "reportFailures"
    /\ UNCHANGED << argc, env, platform, fs, clock, exitCode, timestamp,
                    duplicatedFiles, notUploadedFiles, uploadedCount,
                    filesToProcess, processedCount, idx, queue, tasks, thrown >>
    /\ UNCHANGED << command, probe, readdirCalls >>

\* uploader.js:214-225
WriteFailureReport ==
    /\ pc = "reportFailures"
    /\ IF ShouldWrite(notUploadedFiles)
       THEN /\ reports' = reports \cup
                    { [ name    |-> ReportName("not_uploaded_files_", timestamp),
                        content |-> JSONStringify(notUploadedFiles) ] }
            /\ console' = Append(console, <<"FailureReportSaved">>)
       ELSE UNCHANGED << reports, console >>
    /\ pc' = "returned"
    /\ UNCHANGED << argc, env, platform, fs, clock, exitCode, timestamp,
                    duplicatedFiles, notUploadedFiles, uploadedCount,
                    filesToProcess, processedCount, idx, queue, tasks, thrown >>
    /\ UNCHANGED << command, probe, readdirCalls >>

\* uploader.js:226-233
Catch ==
    /\ pc = "catch"
    /\ console' = console \o
          ( IF thrown.code = "ENOENT"
            THEN << <<"UnexpectedError", thrown.message>>, <<"DirectoryNotFound">> >>
            ELSE << <<"UnexpectedError", thrown.message>> >> )
    /\ pc' = "returned"
    /\ UNCHANGED << argc, env, platform, fs, clock, exitCode, timestamp,
                    duplicatedFiles, notUploadedFiles, uploadedCount,
                    filesToProcess, processedCount, idx, queue, tasks, thrown,
                    reports >>
    /\ UNCHANGED << command, probe, readdirCalls >>

\* The exit code node ends with once uploadDirectory's promise has fulfilled.
ReturnedExitCode == 0

\* uploader.js:267-269: uploadDirectory has returned; once no task is left
\* in flight the event loop is empty and the process ends.
ProcessEnd ==
    /\ pc = "returned"
    /\ \A i \in 1..Len(tasks) : tasks[i].state \in {"fulfilled", "rejected"}
    /\ exitCode' = ReturnedExitCode
    /\ pc' = "exited"
    /\ UNCHANGED << argc, env, platform, fs, clock, timestamp, duplicatedFiles,
                    notUploadedFiles, uploadedCount, filesToProcess,
                    processedCount, idx, queue, tasks, thrown, console, reports >>
    /\ UNCHANGED << command, probe, readdirCalls >>

\* ------------------------------------------------------------- the tasks
\* What the headObject promise settles with, and what readFileSync does.
HeadResults == { [ok |-> TRUE, err |-> NoError] }
                   \cup { [ok |-> FALSE, err |-> e] : e \in HeadErrors \cup {NotFoundError} }
ReadResults == { [ok |-> TRUE, err |-> NoError] }
                   \cup { [ok |-> FALSE, err |-> e] : e \in ReadErrors }
UploadResults == { [ok |-> TRUE, err |-> NoError] }
                   \cup { [ok |-> FALSE, err |-> e] : e \in UploadErrors }

\* A slip: an existing object is overwritten instead of skipped.
HeadBranch_Overwrites(r) ==
    IF r.ok THEN "upload"
    ELSE IF r.err.code = "NotFound" THEN "upload"
    ELSE "checkFailed"

\* A slip: every rejection of the check is taken for "not found".
HeadBranch_AnyErrorIsNotFound(r) ==
    IF r.ok THEN "duplicate" ELSE "upload"

\* A slip: a failed check is thrown on instead of recorded.
HeadBranch_Rethrows(r) ==
    IF r.ok THEN "duplicate"
    ELSE IF r.err.code = "NotFound" THEN "upload"
    ELSE "rethrow"

\* uploader.js:139-145,168: the branch processFile takes on the settled check.
HeadBranch(r) ==
    IF r.ok THEN "duplicate"
    ELSE IF r.err.code = "NotFound" THEN "upload"
    ELSE "checkFailed"

\* A slip: the error's code recorded in place of its message.
UploadFailureEntry_Code(fileName, err) == [file |-> fileName, error |-> <<err.code>>]

\* uploader.js:163-166
UploadFailureEntry(fileName, err) == [file |-> fileName, error |-> <<err.message>>]

\* uploader.js:171-174
CheckFailureEntry(fileName, err) ==
    [file |-> fileName, error |-> <<"Failed to check S3 status: ", CodeOrMessage(err)>>]

\* A slip: the count read when the task started, before its awaits, and
\* written back plus one at its end: a lost update.  At a task's start the
\* count is the number of tasks of the earlier batches.
NextProcessed_StaleRead(n) == (Len(tasks) - Len(queue)) + 1

\* uploader.js:177
NextProcessed(n) == n + 1

\* A slip: unshift in place of push, the newest entry put first.
Push_Unshift(list, x) == <<x>> \o list

\* Array.prototype.push (uploader.js:143,163,171)
Push(list, x) == Append(list, x)

\* A slip: a rejected write is issued again instead of ending the task.
AfterUpload_Retries(t, r) ==
    IF r.ok
    THEN [ t EXCEPT !.state = "fulfilled", !.uploadResult = "ok", !.error = r.err ]
    ELSE [ t EXCEPT !.uploads = @ + 1, !.error = r.err ]

\* uploader.js:155-167: processFile's record of task t once its upload promise
\* has settled with r; success or failure, the task goes on to its end.
AfterUpload(t, r) ==
    [ t EXCEPT !.state = "fulfilled",
               !.uploadResult = IF r.ok THEN "ok" ELSE "error",
               !.error = r.err ]

\* A slip: the counter bumped before the upload's outcome is known.
UploadedAfter_CountsFailures(r, n) == n + 1

\* uploader.js:156-157: uploadedCount after the upload promise settled with r.
UploadedAfter(r, n) == IF r.ok THEN n + 1 ELSE n

\* uploader.js:177-178: the lines a finishing task prints after `line`.
FinishLines(line) ==
    << line, ProgressLine(NextProcessed(processedCount), Len(filesToProcess)) >>

\* uploader.js:141-176: the headObject promise of task i settles and
\* processFile runs on to its next await or to its end.
HeadReturn(i) ==
    /\ Suspended
    /\ i \in 1..Len(tasks)
    /\ tasks[i].state = "head"
    /\ \E r \in HeadResults, rd \in ReadResults :
         LET t    == tasks[i]
             seen == IF r.ok THEN "exists"
                     ELSE IF r.err.code = "NotFound" THEN "NotFound" ELSE "error"
         IN
         CASE HeadBranch(r) = "duplicate" ->
                /\ tasks' = [tasks EXCEPT ![i].state = "fulfilled",
                                          ![i].headResult = seen]
                /\ duplicatedFiles' = Push(duplicatedFiles, t.fileName)
                /\ processedCount' = NextProcessed(processedCount)
                /\ console' = console \o FinishLines(<<"SKIPPED", t.fileName>>)
                /\ UNCHANGED notUploadedFiles
           [] HeadBranch(r) = "upload" /\ rd.ok ->
                /\ tasks' = [tasks EXCEPT ![i].state = "upload",
                                          ![i].headResult = seen,
                                          ![i].reads = @ + 1,
                                          ![i].uploads = @ + 1,
                                          ![i].uploadResult = "pending",
                                          ![i].uploadKey = S3Key(platform, t.fileName)]
                /\ UNCHANGED << duplicatedFiles, notUploadedFiles,
                                processedCount, console >>
           [] HeadBranch(r) = "upload" /\ ~rd.ok ->
                /\ tasks' = [tasks EXCEPT ![i].state = "fulfilled",
                                          ![i].headResult = seen,
                                          ![i].reads = @ + 1]
                /\ notUploadedFiles' =
                       Push(notUploadedFiles, UploadFailureEntry(t.fileName, rd.err))
                /\ processedCount' = NextProcessed(processedCount)
                /\ console' = console \o
                       FinishLines(<<"ERROR uploading", t.fileName, rd.err.message>>)
                /\ UNCHANGED duplicatedFiles
           [] HeadBranch(r) = "checkFailed" ->
                /\ tasks' = [tasks EXCEPT ![i].state = "fulfilled",
                                          ![i].headResult = seen]
                /\ notUploadedFiles' =
                       Push(notUploadedFiles, CheckFailureEntry(t.fileName, r.err))
                /\ processedCount' = NextProcessed(processedCount)
                /\ console' = console \o
                       FinishLines(<<"ERROR checking", t.fileName, r.err>>)
                /\ UNCHANGED duplicatedFiles
           [] OTHER ->
                \* An error escaping processFile would reject its promise; both
                \* try blocks catch everything, so the code has no such branch.
                /\ tasks' = [tasks EXCEPT ![i].state = "rejected",
                                          ![i].headResult = seen,
                                          ![i].error = r.err]
                /\ UNCHANGED << duplicatedFiles, notUploadedFiles,
                                processedCount, console >>
    /\ UNCHANGED << argc, env, platform, fs, clock, pc, exitCode, timestamp,
                    uploadedCount, filesToProcess, idx, queue, thrown, reports >>
    /\ UNCHANGED << command, probe, readdirCalls >>

\* uploader.js:149-167,177-178: the upload promise of task i settles.
UploadReturn(i) ==
    /\ Suspended
    /\ i \in 1..Len(tasks)
    /\ tasks[i].state = "upload"
    /\ \E r \in UploadResults :
         LET t == tasks[i] IN
         /\ tasks' = [tasks EXCEPT ![i] = AfterUpload(t, r)]
         /\ uploadedCount' = UploadedAfter(r, uploadedCount)
         /\ IF r.ok
            THEN /\ console' = console \o FinishLines(<<"UPLOADED", t.fileName>>)
                 /\ UNCHANGED notUploadedFiles
            ELSE /\ notUploadedFiles' =
                        Push(notUploadedFiles, UploadFailureEntry(t.fileName, r.err))
                 /\ console' = console \o
                        FinishLines(<<"ERROR uploading", t.fileName, r.err.message>>)
    /\ processedCount' = NextProcessed(processedCount)
    /\ UNCHANGED << argc, env, platform, fs, clock, pc, exitCode, timestamp,
                    duplicatedFiles, filesToProcess, idx, queue, thrown, reports >>
    /\ UNCHANGED << command, probe, readdirCalls >>

\* ------------------------------------------------------ the test command
bucketName == "my-bucket"

\* What the headBucket promise can reject with: one error per case of the
\* switch of uploader.js:54-101, the last one for its default.
ProbeErrors ==
    { [code |-> "NoSuchBucket",          message |-> "The specified bucket does not exist"],
      [code |-> "Forbidden",             message |-> "Forbidden"],
      [code |-> "InvalidAccessKeyId",    message |-> "Invalid access key"],
      [code |-> "SignatureDoesNotMatch", message |-> "Signature mismatch"],
      [code |-> "NetworkingError",       message |-> "getaddrinfo ENOTFOUND"],
      [code |-> "BadRequest",            message |-> "Bad Request"] }

ProbeResults == { [ok |-> TRUE, err |-> NoError] }
                   \cup { [ok |-> FALSE, err |-> e] : e \in ProbeErrors }

\* uploader.js:35,92: `config` is a const of the try block, and the catch
\* block is another scope, so the name is not bound where line 92 reads it.
ConfigInCatchScope == FALSE

\* The ReferenceError that reading an unbound name throws.
ReferenceError == [code |-> NoCode, message |-> "config is not defined"]

\* uploader.js:54-101: the lines the switch prints for the error.
CategoryLines(err) ==
    CASE err.code = "NoSuchBucket" ->
           << <<"BucketDoesNotExist", bucketName>> >>
      [] err.code = "Forbidden" ->
           << <<"AccessDenied">>, <<"CheckIAMPermissions">> >>
      [] err.code = "InvalidAccessKeyId" ->
           << <<"AccessKeyIdUnknown">> >>
      [] err.code = "SignatureDoesNotMatch" ->
           << <<"SecretAccessKeyIncorrect">>, <<"SignatureMismatch">> >>
      [] err.code = "NetworkingError" ->
           << <<"UnableToConnect", "config.region">> >>
      [] OTHER ->
           << <<"UnexpectedProbeError", err.message>> >>

\* uploader.js:54-101: whether evaluating the switch for the error throws.
HandlerThrows(err) == err.code = "NetworkingError" /\ ~ConfigInCatchScope

\* uploader.js:31-40: testAWSConfiguration up to its await: getAWSConfig, then
\* the headBucket request is issued.
TestStart ==
    /\ pc = "test"
    /\ IF ~CredentialsPresent
       THEN /\ console' = console \o << <<"RunningTest">>, <<"MissingCredentials">> >>
            /\ exitCode' = 1
            /\ pc' = "exited"
            /\ UNCHANGED probe
       ELSE /\ console' = console \o << <<"RunningTest">>, <<"CheckingAccess", bucketName>> >>
            /\ probe' = [calls |-> probe.calls + 1, state |-> "pending"]
            /\ pc' = "awaitProbe"
            /\ UNCHANGED exitCode
    /\ UNCHANGED << argc, env, platform, fs, clock, timestamp, duplicatedFiles,
                    notUploadedFiles, uploadedCount, filesToProcess,
                    processedCount, idx, queue, tasks, thrown, reports,
                    command, readdirCalls >>

\* uploader.js:40-103: the headBucket promise settles; the success lines are
\* printed, or the catch block runs.
ProbeReturn ==
    /\ pc = "awaitProbe"
    /\ \E r \in ProbeResults :
         /\ probe' = [probe EXCEPT !.state = IF r.ok THEN "ok" ELSE r.err.code]
         /\ IF r.ok
            THEN /\ console' = Append(console, <<"TestSuccessful", bucketName>>)
                 /\ pc' = "returned"
                 /\ UNCHANGED thrown
            ELSE IF HandlerThrows(r.err)
            THEN /\ console' = Append(console, <<"TestFailed">>)
                 /\ thrown' = ReferenceError
                 /\ pc' = "testRejected"
            ELSE /\ console' = console \o << <<"TestFailed">> >> \o CategoryLines(r.err)
                                  \o << <<"FullErrorDetails", r.err>> >>
                 /\ pc' = "returned"
                 /\ UNCHANGED thrown
    /\ UNCHANGED << argc, env, platform, fs, clock, exitCode, timestamp,
                    duplicatedFiles, notUploadedFiles, uploadedCount,
                    filesToProcess, processedCount, idx, queue, tasks, reports,
                    command, readdirCalls >>

\* uploader.js:260: the rejection of testAWSConfiguration is printed.
TestCatch ==
    /\ pc = "testRejected"
    /\ console' = Append(console, <<"Rejected", thrown.message>>)
    /\ pc' = "returned"
    /\ UNCHANGED << argc, env, platform, fs, clock, exitCode, timestamp,
                    duplicatedFiles, notUploadedFiles, uploadedCount,
                    filesToProcess, processedCount, idx, queue, tasks, thrown,
                    reports, command, probe, readdirCalls >>

\* Time passes while the engine waits for the storage service.
Tick ==
    /\ pc \in {"awaitBatch", "awaitFinal"}
    /\ clock < MaxClock
    /\ clock' = clock + 1
    /\ UNCHANGED << argc, env, platform, fs, pc, exitCode, timestamp,
                    duplicatedFiles, notUploadedFiles, uploadedCount,
                    filesToProcess, processedCount, idx, queue, tasks, thrown,
                    console, reports >>
    /\ UNCHANGED << command, probe, readdirCalls >>

\* ------------------------------------------------------- specifications
TaskIds == 1..(MaxEntries + 1)

Engine ==
    \/ Main
    \/ StartUpload
    \/ Enumerate
    \/ LoopStep
    \/ LoopExit
    \/ ResumeBatch
    \/ ResumeFinal
    \/ Summary
    \/ WriteDuplicateReport
    \/ WriteFailureReport
    \/ Catch
    \/ ProcessEnd
    \/ TestStart
    \/ TestCatch

Next ==
    \/ Main
    \/ StartUpload
    \/ Enumerate
    \/ LoopStep
    \/ LoopExit
    \/ ResumeBatch
    \/ ResumeFinal
    \/ Summary
    \/ WriteDuplicateReport
    \/ WriteFailureReport
    \/ Catch
    \/ ProcessEnd
    \/ \E i \in TaskIds : HeadReturn(i)
    \/ \E i \in TaskIds : UploadReturn(i)
    \/ Tick
    \/ TestStart
    \/ ProbeReturn
    \/ TestCatch

Spec == Init /\ [][Next]_vars

\* Node runs every runnable continuation, and every storage call is assumed
\* to settle: the engine's steps and each task's callbacks are weakly fair.
FairSpec ==
    /\ Spec
    /\ WF_vars(Engine)
    /\ \A i \in TaskIds : WF_vars(HeadReturn(i)) /\ WF_vars(UploadReturn(i))
    /\ WF_vars(ProbeReturn)

\* ------------------------------------------------------------ the claims
Total == Len(filesToProcess)

CountIn(seq, x) == Cardinality({ k \in 1..Len(seq) : seq[k] = x })

FailedNames == [ k \in 1..Len(notUploadedFiles) |-> notUploadedFiles[k].file ]

UploadedLines(f) == { k \in 1..Len(console) : console[k] = <<"UPLOADED", f>> }

SummaryLines == { k \in 1..Len(console) : console[k][1] = "Summary" }

InFlight == { i \in 1..Len(tasks) : tasks[i].state \in {"head", "upload"} }

\* The run reached its summary (uploader.js:194).
AtSummary == pc = "summary" \/ SummaryLines # {}

\* C1: when uploadDirectory reaches its summary the three buckets partition
\* the candidate files: the counts add up to the number of files found (in
\* the state and in the printed summary), and every candidate file is in
\* exactly one bucket exactly once.
C1_Partition ==
    AtSummary =>
      /\ uploadedCount + Len(duplicatedFiles) + Len(notUploadedFiles) = Total
      /\ \A k \in SummaryLines : console[k][3] + console[k][4] + console[k][5] = console[k][2]
      /\ uploadedCount =
            Cardinality({ k \in 1..Len(console) : console[k][1] = "UPLOADED" })
      /\ \A j \in 1..Total :
            LET f == filesToProcess[j] IN
            Cardinality(UploadedLines(f)) + CountIn(duplicatedFiles, f)
                + CountIn(FailedNames, f) = 1

C1_Witness ==
    /\ pc = "exited"
    /\ SummaryLines # {}
    /\ Total = 3
    /\ uploadedCount = 1
    /\ Len(duplicatedFiles) = 1
    /\ Len(notUploadedFiles) = 1

\* C2: a file whose existence check succeeded is never read and never passed
\* to the write operation; it is recorded as a duplicate once and nowhere else.
C2_ExistingNeverWritten ==
    \A i \in 1..Len(tasks) :
      tasks[i].headResult = "exists" =>
        /\ tasks[i].uploads = 0
        /\ tasks[i].reads = 0
        /\ tasks[i].uploadKey = NoKey
        /\ tasks[i].state = "fulfilled"
        /\ CountIn(duplicatedFiles, tasks[i].fileName) = 1
        /\ CountIn(FailedNames, tasks[i].fileName) = 0
        /\ UploadedLines(tasks[i].fileName) = {}

C2_Witness ==
    /\ pc = "exited"
    /\ \E i \in 1..Len(tasks) : tasks[i].headResult = "exists"
    /\ \E i \in 1..Len(tasks) : tasks[i].uploads = 1

\* C3: at every moment the number of tasks started and not yet finished is at
\* most CONCURRENT_UPLOADS.
C3_InFlightBound == Cardinality(InFlight) <= CONCURRENT_UPLOADS

C3_Witness ==
    /\ Cardinality(InFlight) = CONCURRENT_UPLOADS
    /\ Total > CONCURRENT_UPLOADS
    /\ \E i \in InFlight : tasks[i].state = "upload"

\* The batch a task belongs to, counting from 0.
BatchOf(i) == (i - 1) \div CONCURRENT_UPLOADS

\* C4: tasks are started in input order in consecutive batches of at most
\* CONCURRENT_UPLOADS; when the engine waits, every task of the batch has been
\* started; and a task of a later batch is started only when every task of the
\* earlier batches has recorded its outcome.
C4_BatchOrder ==
    /\ \A i \in 1..Len(tasks) : tasks[i].fileName = filesToProcess[i]
    /\ Len(queue) <= CONCURRENT_UPLOADS
    /\ \A k \in 1..Len(queue) : queue[k] = Len(tasks) - Len(queue) + k
    /\ pc = "awaitBatch" => Len(queue) = CONCURRENT_UPLOADS
    /\ pc = "awaitFinal" => Len(tasks) = Total
    /\ InFlight # {} => pc \in {"loop", "awaitBatch", "awaitFinal"}
    /\ \A i, j \in 1..Len(tasks) :
          BatchOf(j) < BatchOf(i) => tasks[j].state = "fulfilled"

C4_Witness ==
    /\ Len(tasks) = 3
    /\ tasks[3].state = "head"
    /\ tasks[1].state = "fulfilled"
    /\ tasks[2].state = "fulfilled"
    /\ tasks[2].uploads = 1

\* C5: a task whose existence check failed with an error other than not-found
\* is recorded once in the failed bucket, with a message saying that the check
\* failed, and the write operation is never invoked for it (nor the file read).
C5_CheckFailureRecorded ==
    \A i \in 1..Len(tasks) :
      tasks[i].headResult = "error" =>
        /\ tasks[i].uploads = 0
        /\ tasks[i].reads = 0
        /\ tasks[i].state = "fulfilled"
        /\ CountIn(FailedNames, tasks[i].fileName) = 1
        /\ \A k \in 1..Len(notUploadedFiles) :
              notUploadedFiles[k].file = tasks[i].fileName =>
                /\ notUploadedFiles[k].error[1] = "Failed to check S3 status: "
                /\ notUploadedFiles[k].error[2] \in
                      { CodeOrMessage(e) : e \in HeadErrors }
        /\ CountIn(duplicatedFiles, tasks[i].fileName) = 0
        /\ UploadedLines(tasks[i].fileName) = {}

C5_Witness ==
    /\ pc = "exited"
    /\ \E i, j \in 1..Len(tasks) :
          /\ tasks[i].headResult = "error"
          /\ tasks[j].headResult = "error"
          /\ \E k, l \in 1..Len(notUploadedFiles) :
                /\ notUploadedFiles[k].file = tasks[i].fileName
                /\ notUploadedFiles[l].file = tasks[j].fileName
                /\ notUploadedFiles[k].error[2] = "Forbidden"
                /\ notUploadedFiles[l].error[2] = "socket hang up"

\* readdirSync of the path throws, or statSync of some entry throws.
EnumerationFails ==
    \/ fs.readdir # "ok"
    \/ \E k \in 1..Len(fs.entries) : fs.entries[k].stat \notin {"file", "dir"}

\* The upload command got as far as enumerating the directory.
UploadRan == command = "upload" /\ argc = 4 /\ env = RequiredEnv

\* C6: the upload command ends with a non-zero exit code when the directory
\* cannot be enumerated, and with exit code 0 when it can, whatever the tasks'
\* outcomes.
C6_ExitCodeReflectsEnumeration ==
    (pc = "exited" /\ UploadRan) =>
        IF EnumerationFails THEN exitCode # 0 ELSE exitCode = 0

\* C7: when enumeration fails no task is ever started (no existence check, no
\* write), no summary is printed and no report file is written.
C7_AbortBeforeTasks ==
    EnumerationFails =>
      /\ tasks = << >>
      /\ queue = << >>
      /\ SummaryLines = {}
      /\ reports = {}
      /\ uploadedCount = 0 /\ duplicatedFiles = << >> /\ notUploadedFiles = << >>

C7_Witness ==
    /\ pc = "exited"
    /\ UploadRan
    /\ fs.readdir = "ok"
    /\ \E k, l \in 1..Len(fs.entries) :
          k < l /\ fs.entries[k].stat = "file" /\ fs.entries[l].stat = "EACCES"
    /\ \E k \in 1..Len(console) : console[k][1] = "UnexpectedError"

\* The timestamp of a run started at clock reading 0, as it appears in names.
StartStamp == <<"2026-11-06", "T", "06", "-", "50", "-", "0", "-", "000Z">>

DuplicateReports == { r \in reports : r.name[1] = "duplicated_" }
FailureReports   == { r \in reports : r.name[1] = "not_uploaded_files_" }

\* The run got past enumeration and uploadDirectory has returned.
RunFinished == pc \in {"returned", "exited"} /\ SummaryLines # {}

C9_EveryTaskProcessed ==
    /\ [](Cardinality(SummaryLines) <= 1)
    /\ (pc = "loop") ~>
          ( /\ pc = "exited"
            /\ Cardinality(SummaryLines) = 1
            /\ Len(tasks) = Total
            /\ \A i \in 1..Len(tasks) : tasks[i].state = "fulfilled"
            /\ processedCount = Total )

\* A finished run with a check failure, a read failure and a write failure.
C9_Witness ==
    /\ pc = "exited"
    /\ Cardinality(SummaryLines) = 1
    /\ Len(notUploadedFiles) = 3
    /\ \E k \in 1..3 : notUploadedFiles[k].error[1] = "Failed to check S3 status: "
    /\ \E k \in 1..3 : notUploadedFiles[k].error[1] = "Access Denied"
    /\ \E k \in 1..3 : notUploadedFiles[k].error[1] = "EACCES: permission denied, open"

ProgressIdx == { k \in 1..Len(console) : console[k][1] = "Progress" }

OutcomeTags == {"SKIPPED", "UPLOADED", "ERROR uploading", "ERROR checking"}

\* C10: one progress line per finished task, printed right after the task's
\* outcome; the counts printed are 1, 2, ..., in that order, so at the summary
\* the count T has been printed exactly once and last.
C10_ProgressLines ==
    /\ Cardinality(ProgressIdx) =
          Cardinality({ i \in 1..Len(tasks) : tasks[i].state = "fulfilled" })
    /\ Cardinality(ProgressIdx) =
          uploadedCount + Len(duplicatedFiles) + Len(notUploadedFiles)
    /\ \A k \in ProgressIdx :
          /\ console[k] = <<"Progress", Cardinality({ j \in ProgressIdx : j <= k }), Total>>
          /\ k > 1
          /\ console[k - 1][1] \in OutcomeTags
    /\ Cardinality({ k \in 1..Len(console) : console[k][1] \in OutcomeTags })
          = Cardinality(ProgressIdx)
    /\ (AtSummary /\ Total > 0) =>
          /\ Cardinality({ k \in ProgressIdx : console[k][2] = Total }) = 1
          /\ \E k \in ProgressIdx :
                console[k][2] = Total /\ \A j \in ProgressIdx : j <= k

\* A finished run of three tasks in which the second file finished first.
C10_Witness ==
    /\ pc = "exited"
    /\ Total = 3
    /\ Cardinality(ProgressIdx) = 3
    /\ \E k, l \in 1..Len(console) :
          /\ k < l
          /\ console[k][1] \in OutcomeTags /\ console[k][2] = filesToProcess[2]
          /\ console[l][1] \in OutcomeTags /\ console[l][2] = filesToProcess[1]

\* C11: a task whose check reported not-found and whose write was rejected
\* with message m is in the failed bucket exactly once, as {file, error: m},
\* and in no other bucket; uploadedCount counts the successful writes only; and
\* the run still processes every other task.
C11_WriteFailureRecorded ==
    /\ \A i \in 1..Len(tasks) :
          tasks[i].uploadResult = "error" =>
            /\ tasks[i].headResult = "NotFound"
            /\ tasks[i].state = "fulfilled"
            /\ CountIn(FailedNames, tasks[i].fileName) = 1
            /\ \A k \in 1..Len(notUploadedFiles) :
                  notUploadedFiles[k].file = tasks[i].fileName =>
                     notUploadedFiles[k] =
                        [file |-> tasks[i].fileName, error |-> <<"Access Denied">>]
            /\ CountIn(duplicatedFiles, tasks[i].fileName) = 0
            /\ UploadedLines(tasks[i].fileName) = {}
    /\ uploadedCount =
          Cardinality({ i \in 1..Len(tasks) : tasks[i].uploadResult = "ok" })
    /\ RunFinished =>
          /\ Len(tasks) = Total
          /\ \A i \in 1..Len(tasks) : tasks[i].state = "fulfilled"

\* A finished run whose first write was rejected and whose last succeeded.
C11_Witness ==
    /\ pc = "exited"
    /\ Len(tasks) = 3
    /\ tasks[1].uploadResult = "error"
    /\ tasks[1].error.message = "Access Denied"
    /\ tasks[3].uploadResult = "ok"
    /\ FailureReports # {}

\* C12: there is no retry.  Every task issues exactly one existence check and
\* at most one read and one write, the write only after its check reported
\* not-found; there is one task per file; and a task that has recorded its
\* outcome, success or failure, never does anything again.
C12_NoRetry ==
    /\ [](\A i \in 1..Len(tasks) :
            /\ tasks[i].heads = 1
            /\ tasks[i].reads <= 1
            /\ tasks[i].uploads <= 1
            /\ tasks[i].uploads = 1 =>
                  tasks[i].headResult = "NotFound" /\ tasks[i].reads = 1
            /\ tasks[i].uploadResult = "error" => tasks[i].state = "fulfilled"
            /\ tasks[i].headResult = "error" => tasks[i].state = "fulfilled")
    /\ [](/\ Len(tasks) <= Total
          /\ \A i, j \in 1..Len(tasks) :
                tasks[i].fileName = tasks[j].fileName => i = j)
    /\ [][\A i \in 1..Len(tasks) :
            tasks[i].state = "fulfilled" => tasks'[i] = tasks[i]]_vars

\* A finished run with a failed check, a rejected write and a good write.
C12_Witness ==
    /\ pc = "exited"
    /\ \E i \in 1..Len(tasks) : tasks[i].headResult = "error"
    /\ \E i \in 1..Len(tasks) : tasks[i].uploadResult = "error" /\ tasks[i].uploads = 1
    /\ \E i \in 1..Len(tasks) : tasks[i].uploadResult = "ok"

\* The command line names a command and has its number of arguments.
ArgsValid ==
    \/ command = "test" /\ argc = 2
    \/ command = "upload" /\ argc = 4

CredentialLines == { k \in 1..Len(console) : console[k] = <<"MissingCredentials">> }

\* C13: for both commands, when one of the three environment values is absent
\* no storage call is ever issued (no bucket probe, no existence check, no
\* write), the directory is never listed and nothing is written; the process
\* prints the credential diagnostic and exits non-zero.
C13_MissingCredentialsFatal ==
    env # RequiredEnv =>
      /\ probe.calls = 0
      /\ tasks = << >>
      /\ readdirCalls = 0
      /\ reports = {}
      /\ pc \in {"main", "upload", "test", "exited"}
      /\ pc = "exited" => exitCode # 0
      /\ (pc = "exited" /\ ArgsValid) => Cardinality(CredentialLines) = 1

C13_Witness ==
    /\ pc = "exited"
    /\ command = "test"
    /\ argc = 2
    /\ env = {"AWS_REGION", "AWS_ACCESS_KEY_ID"}
    /\ exitCode = 1
    /\ CredentialLines # {}

\* The test command got as far as probing the bucket.
TestRan == command = "test" /\ argc = 2 /\ env = RequiredEnv

\* C14: the test command ends with exit code 0 when the bucket probe
\* succeeded and with a non-zero exit code when it failed.
C14_ExitCodeReflectsProbe ==
    (pc = "exited" /\ TestRan) =>
        IF probe.state = "ok" THEN exitCode = 0 ELSE exitCode # 0

DirectoryNotFoundLines ==
    { k \in 1..Len(console) : console[k] = <<"DirectoryNotFound">> }

\* C15: the "directory not found" line is printed exactly when listing the
\* directory failed because the path does not exist or is not a directory, and
\* for no other failure of the enumeration (such as a statSync of one entry
\* that throws).
C15_DirectoryNotFoundExact ==
    (pc \in {"returned", "exited"} /\ UploadRan) =>
        ( DirectoryNotFoundLines # {} <=> fs.readdir \in {"ENOENT", "ENOTDIR"} )

\* The line the switch of testAWSConfiguration is to print for an error code.
ExpectedCategoryTag(code) ==
    CASE code = "NoSuchBucket"          -> "BucketDoesNotExist"
      [] code = "Forbidden"             -> "AccessDenied"
      [] code = "InvalidAccessKeyId"    -> "AccessKeyIdUnknown"
      [] code = "SignatureDoesNotMatch" -> "SecretAccessKeyIncorrect"
      [] code = "NetworkingError"       -> "UnableToConnect"
      [] OTHER                          -> "UnexpectedProbeError"

\* C16: whatever category the bucket probe failed with, the handler prints that
\* category's message, then the error's details, and raises no further error.
C16_EveryCategoryReported ==
    (pc \in {"returned", "exited"} /\ TestRan /\ probe.state # "ok") =>
      /\ \E k \in 1..Len(console) : console[k][1] = ExpectedCategoryTag(probe.state)
      /\ \E k \in 1..Len(console) : console[k][1] = "FullErrorDetails"
      /\ \A k \in 1..Len(console) : console[k][1] # "Rejected"
      /\ thrown = NoError

\* The file names of the console's outcome lines with a tag of `tags`, in the
\* order the lines were printed, which is the order the tasks finished in.
FinishedNames(tags) ==
    LET sel == SelectSeq(console, LAMBDA line : line[1] \in tags)
    IN  [ k \in 1..Len(sel) |-> sel[k][2] ]

\* C17: tasks are started in input order, and the duplicates list and the
\* failures list hold their entries in the order the tasks finished in: each
\* list is the sequence of its tasks' names in finishing order, and a task's
\* entry is only ever added at the end of a list.
C17_CompletionOrder ==
    /\ [](/\ \A i \in 1..Len(tasks) : tasks[i].fileName = filesToProcess[i]
          /\ duplicatedFiles = FinishedNames({"SKIPPED"})
          /\ FailedNames = FinishedNames({"ERROR uploading", "ERROR checking"}))
    /\ [][/\ \/ duplicatedFiles' = duplicatedFiles
             \/ /\ Len(duplicatedFiles') = Len(duplicatedFiles) + 1
                /\ SubSeq(duplicatedFiles', 1, Len(duplicatedFiles)) = duplicatedFiles
          /\ \/ notUploadedFiles' = notUploadedFiles
             \/ /\ Len(notUploadedFiles') = Len(notUploadedFiles) + 1
                /\ SubSeq(notUploadedFiles', 1, Len(notUploadedFiles)) = notUploadedFiles
         ]_vars

\* A finished run whose two lists are both in the reverse of input order.
C17_Witness ==
    /\ pc = "exited"
    /\ Total = 3
    /\ duplicatedFiles = << filesToProcess[2], filesToProcess[1] >>
    /\ Len(notUploadedFiles) = 1

\* C18: no update of the shared result state is lost: in every state another
\* task or the engine can see, processedCount equals the sum of the three
\* buckets and equals the number of tasks that have finished; a task's outcome
\* and its increment of processedCount appear together.
C18_NoLostUpdate ==
    /\ processedCount = uploadedCount + Len(duplicatedFiles) + Len(notUploadedFiles)
    /\ processedCount =
          Cardinality({ i \in 1..Len(tasks) : tasks[i].state = "fulfilled" })
    /\ processedCount <= Total
    /\ AtSummary => processedCount = Total

\* Two tasks of one batch in flight together: the second has finished while
\* the first still waits for its write.
C18_Witness ==
    /\ pc = "awaitBatch"
    /\ Len(tasks) = 2
    /\ tasks[1].state = "upload"
    /\ tasks[2].state = "fulfilled"
    /\ processedCount = 1

\* C19: on either platform a task's remote key is the destination prefix, a
\* forward slash and the file name ("photos" and "a.txt" give "photos/a.txt"),
\* with no backslash anywhere, and the key given to the write is the key that
\* was given to the task's existence check.
C19_RemoteKey ==
    \A i \in 1..Len(tasks) :
      /\ tasks[i].headKey = <<"photos", "/", tasks[i].fileName>>
      /\ \A k \in 1..Len(tasks[i].headKey) : tasks[i].headKey[k] # "\\"
      /\ tasks[i].uploads > 0 => tasks[i].uploadKey = tasks[i].headKey
      /\ tasks[i].uploads = 0 => tasks[i].uploadKey = NoKey

\* On win32, where path.join joins with a backslash, a.txt was written.
C19_Witness ==
    /\ pc = "exited"
    /\ platform = "win32"
    /\ Len(tasks) >= 1
    /\ tasks[1].uploadResult = "ok"
    /\ tasks[1].headKey = <<"photos", "/", "a.txt">>
    /\ tasks[1].uploadKey = <<"photos", "/", "a.txt">>

====
